---------------------------- MODULE Spec2Model ----------------------------
(***************************************************************************)
(* Model of the nanoparticle scoring engine (core/scoring.py) and of the   *)
(* session-state bootstrap (core/state.py).                                *)
(*                                                                         *)
(* Numbers are exact rationals <<n, d>> with d > 0 in lowest terms, so     *)
(* every division and every decimal weight of the source is computed and   *)
(* not approximated.  Binary64 rounding is not modelled.                   *)
(* A Python dict is a function whose DOMAIN is the set of keys present.    *)
(* A call that can raise yields [value |-> v] when it returns v and        *)
(* [raised |-> "KeyError", key |-> k] when d[k] fails.                     *)
(***************************************************************************)
EXTENDS Integers, Sequences, FiniteSets, TLC

VARIABLES
    mode,             \* which entry point the caller drives in this run
    design,           \* the design dict handed to the engine
    vargs,            \* <<value, lo, hi>> handed to validate_parameter
    called,           \* name of the last engine function applied ("" = none)
    impact,           \* dict returned / error raised by compute_impact
    locals,           \* the sub-scores compute_impact worked out on the way
    recommendations,  \* list returned / error raised by get_recommendations
    status,           \* string returned by validate_parameter
    checklist,        \* number returned / error raised by regulatory_checklist
    overall,          \* number returned by overall_score_from_impact
    session,          \* st.session_state
    last              \* the last core/state.py call, [op, overrides, title]

vars == <<mode, design, vargs, called, impact, locals, recommendations,
          status, checklist, overall, session, last>>

-----------------------------------------------------------------------------
(* Exact rational arithmetic *)

RECURSIVE GCD(_, _)
GCD(a, b) == IF b = 0 THEN a ELSE GCD(b, a % b)

IAbs(n) == IF n < 0 THEN -n ELSE n

\* n/d in lowest terms with a positive denominator (d # 0)
Frac(n, d) ==
    LET g == GCD(IAbs(n), IAbs(d))
        s == IF d < 0 THEN -1 ELSE 1
    IN  <<(s * n) \div g, (s * d) \div g>>

R(n) == <<n, 1>>

Add(a, b) ==
    LET g == GCD(a[2], b[2])
    IN  Frac(a[1] * (b[2] \div g) + b[1] * (a[2] \div g), (a[2] \div g) * b[2])

Neg(a) == <<-a[1], a[2]>>
Sub(a, b) == Add(a, Neg(b))

Mul(a, b) ==
    LET g1 == GCD(IAbs(a[1]), b[2])
        g2 == GCD(IAbs(b[1]), a[2])
    IN  Frac((a[1] \div g1) * (b[1] \div g2), (a[2] \div g2) * (b[2] \div g1))

\* a / b for b # 0
Div(a, b) == Mul(a, Frac(b[2], b[1]))

Leq(a, b) == a[1] * b[2] <= b[1] * a[2]
Lt(a, b) == a[1] * b[2] < b[1] * a[2]
Max(a, b) == IF Lt(a, b) THEN b ELSE a
Min(a, b) == IF Lt(b, a) THEN b ELSE a
Abs(a) == <<IAbs(a[1]), a[2]>>
Between(lo, x, hi) == Leq(lo, x) /\ Leq(x, hi)

-----------------------------------------------------------------------------
(* Python dict access *)

Has(d, k) == k \in DOMAIN d

\* d.get(k, default)
Get(d, k, default) == IF Has(d, k) THEN d[k] ELSE default

\* the outcome of a call: a returned value, or a raised KeyError
Return(v) == [value |-> v]
KeyError(k) == [raised |-> "KeyError", key |-> k]

IsError(r) == "raised" \in DOMAIN r
Returned(r) == "value" \in DOMAIN r

\* the first key of ks (in evaluation order) that d[k] fails on, or ""
RECURSIVE FirstMissing(_, _)
FirstMissing(d, ks) ==
    IF ks = <<>> THEN ""
    ELSE IF ~Has(d, Head(ks)) THEN Head(ks)
    ELSE FirstMissing(d, Tail(ks))

-----------------------------------------------------------------------------
(* core/scoring.py: compute_impact *)

\* mutant: the decay above 120nm divides by 4 where the source divides by 2
size_score_slow_decay(Size) ==
    IF Between(R(80), Size, R(120)) THEN R(100)
    ELSE IF Lt(Size, R(80)) THEN Mul(Div(Size, R(80)), R(100))
    ELSE Max(R(0), Sub(R(100), Div(Sub(Size, R(120)), R(4))))

\* Size: optimal is 80-120nm
size_score(Size) ==
    IF Between(R(80), Size, R(120)) THEN R(100)
    ELSE IF Lt(Size, R(80)) THEN Mul(Div(Size, R(80)), R(100))
    ELSE Max(R(0), Sub(R(100), Div(Sub(Size, R(120)), R(2))))

\* Charge: optimal is -10 to +10 mV
charge_score(Charge) ==
    IF Leq(Abs(Charge), R(10)) THEN R(100)
    ELSE Max(R(0), Sub(R(100), Mul(Sub(Abs(Charge), R(10)), R(3))))

\* mutant: PDI defaults to 0.1 where the source defaults it to 0.15
pdi_of_other_default(d) == Get(d, "PDI", Frac(10, 100))

\* Advanced properties (safe defaults if missing)
pdi_of(d) == Get(d, "PDI", Frac(15, 100))
hyd_size_of(d) == Get(d, "HydrodynamicSize", Mul(d["Size"], Frac(12, 10)))
stability_of(d) == Get(d, "Stability", R(85))
surface_area_of(d) == Get(d, "SurfaceArea", R(250))
degradation_time_of(d) == Get(d, "DegradationTime", R(30))

\* mutant: the PDI score without its floor at 0
pdi_score_unfloored(pdi) == Sub(R(100), Mul(pdi, R(200)))

\* PDI score (lower is better)
pdi_score(pdi) == Max(R(0), Sub(R(100), Mul(pdi, R(200))))

\* hyd_size / Size, or 1.0 when Size is falsy
size_ratio(hyd_size, Size) ==
    IF Size # R(0) THEN Div(hyd_size, Size) ELSE R(1)

hydrodynamic_score(hyd_size, Size) ==
    LET ratio == size_ratio(hyd_size, Size)
    IN  IF Between(R(1), ratio, Frac(13, 10)) THEN R(100)
        ELSE Max(R(0), Sub(R(100), Mul(Abs(Sub(ratio, Frac(115, 100))), R(50))))

\* the six terms of the weighted average, before weighting
sub_scores(d) ==
    [size_score |-> size_score(d["Size"]),
     charge_score |-> charge_score(d["Charge"]),
     encap_score |-> d["Encapsulation"],
     pdi_score |-> pdi_score(pdi_of(d)),
     size_ratio |-> size_ratio(hyd_size_of(d), d["Size"]),
     hydrodynamic_score |-> hydrodynamic_score(hyd_size_of(d), d["Size"]),
     stability |-> stability_of(d)]

\* Weighted average delivery
delivery(d) ==
    Add(Add(Add(Add(Add(
        Mul(sub_scores(d).size_score, Frac(25, 100)),
        Mul(sub_scores(d).charge_score, Frac(20, 100))),
        Mul(sub_scores(d).encap_score, Frac(25, 100))),
        Mul(sub_scores(d).pdi_score, Frac(15, 100))),
        Mul(sub_scores(d).hydrodynamic_score, Frac(10, 100))),
        Mul(sub_scores(d).stability, Frac(5, 100)))

base_toxicity(d) ==
    Min(R(10), Add(Div(Abs(d["Charge"]), R(10)),
                   Div(Max(R(0), Abs(Sub(d["Size"], R(100)))), R(50))))

toxicity(d) ==
    LET pdi_toxicity == Mul(pdi_of(d), R(2))
        degradation_toxicity ==
            Max(R(0), Div(Sub(degradation_time_of(d), R(30)), R(30)))
    IN  Min(R(10), Add(Add(base_toxicity(d), pdi_toxicity), degradation_toxicity))

base_cost(d) ==
    Min(R(100), Add(Mul(Sub(R(100), d["Encapsulation"]), Frac(8, 10)),
                    Div(d["Size"], R(4))))

cost(d) ==
    LET surface_area_cost == Div(surface_area_of(d), R(20))
        pdi_cost == Mul(Sub(Frac(2, 10), Min(pdi_of(d), Frac(2, 10))), R(100))
        degradation_cost ==
            Max(R(0), Div(Sub(degradation_time_of(d), R(60)), R(10)))
    IN  Min(R(100), Add(Add(Add(base_cost(d), surface_area_cost), pdi_cost),
                        degradation_cost))

\* mutant: hyd_size / d["Size"] without the guard on a zero Size
compute_impact_unguarded(d) ==
    LET missing == FirstMissing(d, <<"Size", "Charge", "Encapsulation">>)
    IN  IF missing # "" THEN KeyError(missing)
        ELSE IF d["Size"] = R(0)
             THEN [raised |-> "ZeroDivisionError", key |-> ""]
        ELSE Return([Delivery |-> delivery(d), Toxicity |-> toxicity(d),
                     Cost |-> cost(d)])

\* d["Size"] is read first (line 15), then d["Charge"], then d["Encapsulation"]
compute_impact(d) ==
    LET missing == FirstMissing(d, <<"Size", "Charge", "Encapsulation">>)
    IN  IF missing # "" THEN KeyError(missing)
        ELSE Return([Delivery |-> delivery(d), Toxicity |-> toxicity(d),
                     Cost |-> cost(d)])


-----------------------------------------------------------------------------
(* core/scoring.py: get_recommendations (messages named by their text) *)

MSG_INCREASE_SIZE == "Increase size to 80-120nm"
MSG_REDUCE_SIZE == "Reduce size to 80-120nm"
MSG_LOWER_CHARGE == "Lower surface charge"
MSG_REDUCE_CHARGE == "Reduce charge"
MSG_IMPROVE_ENCAP == "Improve encapsulation to >80%"
MSG_AIM_ENCAP == "Aim for >85% encapsulation"
MSG_EXCELLENT == "Excellent design!"

size_recommendation(d) ==
    IF Lt(d["Size"], R(80)) THEN <<MSG_INCREASE_SIZE>>
    ELSE IF Lt(R(150), d["Size"]) THEN <<MSG_REDUCE_SIZE>>
    ELSE <<>>

\* mutant: the second charge test is an `if` where the source has `elif`
charge_recommendation_two_ifs(d) ==
    (IF Lt(R(15), Abs(d["Charge"])) THEN <<MSG_LOWER_CHARGE>> ELSE <<>>)
        \o (IF Lt(R(10), Abs(d["Charge"])) THEN <<MSG_REDUCE_CHARGE>> ELSE <<>>)

charge_recommendation(d) ==
    IF Lt(R(15), Abs(d["Charge"])) THEN <<MSG_LOWER_CHARGE>>
    ELSE IF Lt(R(10), Abs(d["Charge"])) THEN <<MSG_REDUCE_CHARGE>>
    ELSE <<>>

encapsulation_recommendation(d) ==
    IF Lt(d["Encapsulation"], R(70)) THEN <<MSG_IMPROVE_ENCAP>>
    ELSE IF Lt(d["Encapsulation"], R(85)) THEN <<MSG_AIM_ENCAP>>
    ELSE <<>>

get_recommendations(d) ==
    LET missing == FirstMissing(d, <<"Size", "Charge", "Encapsulation">>)
        recs == size_recommendation(d) \o charge_recommendation(d)
                    \o encapsulation_recommendation(d)
    IN  IF missing # "" THEN KeyError(missing)
        ELSE IF recs = <<>> THEN Return(<<MSG_EXCELLENT>>)
        ELSE Return(recs)

-----------------------------------------------------------------------------
(* core/scoring.py: validate_parameter; the three marks are named *)
(* "ok" (check mark), "warning" (yellow) and "bad" (red)          *)

\* mutant: the warning band includes the distance 20 (<= where the source has <)
validate_parameter_inclusive(param, value, optimal_range) ==
    LET lo == optimal_range[1]
        hi == optimal_range[2]
    IN  IF Between(lo, value, hi) THEN "ok"
        ELSE IF Leq(Abs(Sub(value, lo)), R(20)) \/ Leq(Abs(Sub(value, hi)), R(20))
             THEN "warning"
        ELSE "bad"

validate_parameter(param, value, optimal_range) ==
    LET lo == optimal_range[1]
        hi == optimal_range[2]
    IN  IF Between(lo, value, hi) THEN "ok"
        ELSE IF Lt(Abs(Sub(value, lo)), R(20)) \/ Lt(Abs(Sub(value, hi)), R(20))
             THEN "warning"
        ELSE "bad"

-----------------------------------------------------------------------------
(* core/scoring.py: regulatory_checklist *)

ApprovedMaterials == {"Lipid NP", "PLGA"}

\* mutant: the constant-true sterilization entry is dropped
checklist_items_without_placeholder(d) ==
    << Leq(d["Size"], R(200)),
       Lt(pdi_of(d), Frac(3, 10)),
       Leq(Abs(d["Charge"]), R(30)),
       Leq(R(70), d["Encapsulation"]),
       Leq(R(80), stability_of(d)),
       Has(d, "Material") /\ d["Material"] \in ApprovedMaterials,
       Lt(degradation_time_of(d), R(90)) >>

\* the checklist dict, in the order its values are evaluated
checklist_items(d) ==
    << Leq(d["Size"], R(200)),
       Lt(pdi_of(d), Frac(3, 10)),
       Leq(Abs(d["Charge"]), R(30)),
       Leq(R(70), d["Encapsulation"]),
       Leq(R(80), stability_of(d)),
       Has(d, "Material") /\ d["Material"] \in ApprovedMaterials,
       Lt(degradation_time_of(d), R(90)),
       TRUE >>

regulatory_checklist(d) ==
    LET missing == FirstMissing(d, <<"Size", "Charge", "Encapsulation">>)
        items == checklist_items(d)
        passed == Cardinality({i \in DOMAIN items : items[i]})
        total == Len(items)
    IN  IF missing # "" THEN KeyError(missing)
        ELSE Return(Mul(Frac(passed, total), R(100)))

-----------------------------------------------------------------------------
(* core/scoring.py: overall_score_from_impact *)

\* np.clip(x, lo, hi)
clip(x, lo, hi) == Min(Max(x, lo), hi)

\* mutant: the cost term is Cost * 0.1 where the source has (100 - Cost) * 0.1
overall_score_cost_added(i) ==
    clip(Add(Add(Mul(i["Delivery"], Frac(6, 10)),
                 Mul(Sub(R(10), i["Toxicity"]), R(3))),
             Mul(i["Cost"], Frac(1, 10))),
         R(0), R(100))

overall_score_from_impact(i) ==
    clip(Add(Add(Mul(i["Delivery"], Frac(6, 10)),
                 Mul(Sub(R(10), i["Toxicity"]), R(3))),
             Mul(Sub(R(100), i["Cost"]), Frac(1, 10))),
         R(0), R(100))

-----------------------------------------------------------------------------
(* core/state.py: DEFAULTS, init_state, ensure_state, set_active_tab *)

EmptyDict == [k \in {} |-> TRUE]
EmptyList == <<>>

DEFAULTS ==
    [plotly_ok |-> TRUE, sklearn_ok |-> TRUE, py3dmol_ok |-> TRUE,
     rdkit_ok |-> FALSE,
     active_tab |-> "Home", sidebar_collapsed |-> FALSE,
     materials |-> EmptyList, designs |-> EmptyList,
     delivery_plan |-> EmptyDict, toxicity_results |-> EmptyDict,
     cost_results |-> EmptyDict, protocol_steps |-> EmptyList,
     quiz_state |-> EmptyDict,
     debug |-> FALSE]

\* for k, v in src.items(): if k not in s: s[k] = v
SetMissing(s, src) ==
    [k \in DOMAIN s \cup DOMAIN src |-> IF k \in DOMAIN s THEN s[k] ELSE src[k]]

\* mutant: the overrides are written whether or not the key is set
init_state_forcing_overrides(s, overrides) ==
    LET o == IF overrides = <<>> THEN EmptyDict ELSE overrides[1]
        s1 == SetMissing(s, DEFAULTS)
    IN  [k \in DOMAIN s1 \cup DOMAIN o |-> IF k \in DOMAIN o THEN o[k] ELSE s1[k]]

\* overrides is <<>> for None and <<o>> for the dict o
init_state(s, overrides) ==
    LET o == IF overrides = <<>> THEN EmptyDict ELSE overrides[1]
    IN  SetMissing(SetMissing(s, DEFAULTS), o)

ensure_state(s) == init_state(s, <<>>)

set_active_tab(s, title) ==
    [k \in DOMAIN s \cup {"active_tab"} |->
        IF k = "active_tab" THEN title ELSE s[k]]

\* the titles of TAB_SPECS
TabTitles ==
    {"Home", "Materials", "Design", "Delivery", "Toxicity", "Cost",
     "Protocol", "Quiz", "3D View", "Optimize"}

-----------------------------------------------------------------------------
(* Inputs *)

\* an optional field: <<>> when absent, <<v>> when present
Some(S) == {<<v>> : v \in S}
Opt(S) == {<<>>} \cup Some(S)

Design(s, c, e, p, h, st, sa, dg, m) ==
    LET full == [Size |-> s, Charge |-> c, Encapsulation |-> e, PDI |-> p,
                 HydrodynamicSize |-> h, Stability |-> st, SurfaceArea |-> sa,
                 DegradationTime |-> dg, Material |-> m]
    IN  [k \in {x \in DOMAIN full : full[x] # <<>>} |-> full[k][1]]

\* designs that exercise every branch and both ends of every clamp of
\* compute_impact, in and out of the documented ranges
ImpactDesigns ==
    { Design(s, c, e, p, h, st, sa, dg, <<>>) :
        s \in Some({R(-50), R(0), R(40), R(80), R(100), R(120), R(200),
                    R(320), R(400)}),
        c \in Some({R(-50), R(-12), R(0), R(5), R(20)}),
        e \in Some({R(0), R(60), R(85), R(100), R(250)}),
        p \in Opt({R(-1), R(0), R(1)}),
        h \in Opt({R(-100), R(130)}),
        st \in Opt({R(0), R(100)}),
        sa \in Opt({R(-5000)}),
        dg \in Opt({R(100)}) }

\* designs on both sides of every threshold of get_recommendations
RecommendationDesigns ==
    { Design(s, c, e, <<>>, <<>>, <<>>, <<>>, <<>>, <<>>) :
        s \in Some({R(79), R(80), R(130), R(150), R(151)}),
        c \in Some({R(-16), R(-15), R(-11), R(-10), R(10), R(11), R(15), R(16)}),
        e \in Some({R(69), R(70), R(84), R(85)}) }

\* designs on both sides of every predicate of regulatory_checklist
ChecklistDesigns ==
    { Design(s, c, e, p, <<>>, st, <<>>, dg, m) :
        s \in Some({R(100), R(200), R(201)}),
        c \in Some({R(0), R(30), R(-31)}),
        e \in Some({R(90), R(70), R(69)}),
        p \in Opt({Frac(1, 10), Frac(3, 10)}),
        st \in Opt({R(90), R(79)}),
        dg \in Opt({R(20), R(90)}),
        m \in Opt({"Lipid NP", "PLGA", "Gold NP"}) }

\* every subset of the required and of the optional fields absent
PartialDesigns ==
    { Design(s, c, e, p, h, st, sa, dg, <<>>) :
        s \in Opt({R(0), R(100)}), c \in Opt({R(5)}), e \in Opt({R(85)}),
        p \in Opt({Frac(1, 10)}), h \in Opt({R(110)}), st \in Opt({R(90)}),
        sa \in Opt({R(300)}), dg \in Opt({R(45)}) }

Designs ==
    ImpactDesigns \cup RecommendationDesigns \cup ChecklistDesigns
        \cup PartialDesigns

MaxTwiceValue == 420
ValidateValues == {Frac(k, 2) : k \in (-MaxTwiceValue)..MaxTwiceValue}
ValidateRanges ==
    {<<R(80), R(120)>>, <<R(-10), R(10)>>, <<R(85), R(100)>>, <<R(70), R(70)>>}
ValidateArgs ==
    [param : {"Size"}, value : ValidateValues, optimal_range : ValidateRanges]

ImpactRecords ==
    [Delivery : {R(-20), R(0), R(50), R(91), R(100), R(130)},
     Toxicity : {R(-2), R(0), Frac(4, 5), R(5), R(10)},
     Cost : {R(-50), R(0), Frac(109, 2), R(100)}]

OverrideKeys == {"active_tab", "debug", "user_role"}
OverrideDicts ==
    { [k \in ks |-> CASE k = "active_tab" -> "Design"
                      [] k = "debug" -> TRUE
                      [] OTHER -> u] :
        ks \in SUBSET OverrideKeys, u \in {"student", "teacher"} }
OverrideArgs == Opt(OverrideDicts)

-----------------------------------------------------------------------------
(* The engine: one run applies the functions to one input *)

NotCalled == [called |-> FALSE]
NoArgs == [param |-> "", value |-> R(0), optimal_range |-> <<R(0), R(0)>>]
NoCall == [op |-> "", overrides |-> <<>>, title |-> ""]

Init ==
    /\ called = ""
    /\ locals = EmptyDict
    /\ recommendations = NotCalled
    /\ status = ""
    /\ checklist = NotCalled
    /\ overall = NotCalled
    /\ session = EmptyDict
    /\ last = NoCall
    /\ \/ mode = "design" /\ design \in Designs
          /\ vargs = NoArgs /\ impact = NotCalled
       \/ mode = "validate" /\ vargs \in ValidateArgs
          /\ design = EmptyDict /\ impact = NotCalled
       \/ mode = "impact" /\ impact \in {Return(i) : i \in ImpactRecords}
          /\ design = EmptyDict /\ vargs = NoArgs

ComputeImpact ==
    /\ mode = "design" /\ called = ""
    /\ impact' = compute_impact(design)
    /\ locals' = IF Returned(compute_impact(design)) THEN sub_scores(design)
                 ELSE EmptyDict
    /\ called' = "compute_impact"
    /\ UNCHANGED <<mode, design, vargs, recommendations, status, checklist,
                   overall, session, last>>

GetRecommendations ==
    /\ mode = "design" /\ called = ""
    /\ recommendations' = get_recommendations(design)
    /\ called' = "get_recommendations"
    /\ UNCHANGED <<mode, design, vargs, impact, locals, status, checklist, overall,
                   session, last>>

ValidateParameter ==
    /\ mode = "validate" /\ called = ""
    /\ status' = validate_parameter(vargs.param, vargs.value, vargs.optimal_range)
    /\ called' = "validate_parameter"
    /\ UNCHANGED <<mode, design, vargs, impact, locals, recommendations, checklist,
                   overall, session, last>>

RegulatoryChecklist ==
    /\ mode = "design" /\ called = ""
    /\ checklist' = regulatory_checklist(design)
    /\ called' = "regulatory_checklist"
    /\ UNCHANGED <<mode, design, vargs, impact, locals, recommendations, status,
                   overall, session, last>>

\* the ranker takes the scorer's result, or an impact dict of the caller's
OverallScore ==
    /\ \/ mode = "design" /\ called = "compute_impact"
       \/ mode = "impact" /\ called = ""
    /\ Returned(impact)
    /\ overall' = Return(overall_score_from_impact(impact.value))
    /\ called' = "overall_score_from_impact"
    /\ UNCHANGED <<mode, design, vargs, impact, locals, recommendations, status,
                   checklist, session, last>>

Next ==
    \/ ComputeImpact
    \/ GetRecommendations
    \/ ValidateParameter
    \/ RegulatoryChecklist
    \/ OverallScore

Spec == Init /\ [][Next]_vars

-----------------------------------------------------------------------------
(* The session state under init_state, ensure_state and set_active_tab *)

StateInit ==
    /\ mode = "session"
    /\ design = EmptyDict
    /\ vargs = NoArgs
    /\ called = ""
    /\ impact = NotCalled
    /\ locals = EmptyDict
    /\ recommendations = NotCalled
    /\ status = ""
    /\ checklist = NotCalled
    /\ overall = NotCalled
    /\ session = EmptyDict
    /\ last = NoCall

InitState ==
    /\ mode = "session"
    /\ \E o \in OverrideArgs :
        /\ session' = init_state(session, o)
        /\ last' = [op |-> "init_state", overrides |-> o, title |-> ""]
    /\ UNCHANGED <<mode, design, vargs, called, impact, locals, recommendations,
                   status, checklist, overall>>

EnsureState ==
    /\ mode = "session"
    /\ session' = ensure_state(session)
    /\ last' = [op |-> "ensure_state", overrides |-> <<>>, title |-> ""]
    /\ UNCHANGED <<mode, design, vargs, called, impact, locals, recommendations,
                   status, checklist, overall>>

SetActiveTab ==
    /\ mode = "session"
    /\ \E title \in TabTitles :
        /\ session' = set_active_tab(session, title)
        /\ last' = [op |-> "set_active_tab", overrides |-> <<>>, title |-> title]
    /\ UNCHANGED <<mode, design, vargs, called, impact, locals, recommendations,
                   status, checklist, overall>>

StateNext ==
    \/ InitState
    \/ EnsureState
    \/ SetActiveTab

StateSpec == StateInit /\ [][StateNext]_vars

-----------------------------------------------------------------------------
(* Properties of the engine, checked under Spec *)

Required == {"Size", "Charge", "Encapsulation"}

\* compute_impact has been applied to `design` and has returned
ImpactComputed == mode = "design" /\ Returned(impact)

\* C1: for every design with finite numeric fields, of any sign and
\* magnitude, compute_impact returns 0 <= Toxicity <= 10 and 0 <= Cost <= 100.
C1_ToxicityAndCostWithinBounds ==
    ImpactComputed =>
        /\ Between(R(0), impact.value.Toxicity, R(10))
        /\ Between(R(0), impact.value.Cost, R(100))

C2Design == [Size |-> R(100), Charge |-> R(5), Encapsulation |-> R(85)]

C2SubScores ==
    /\ locals.size_score = R(100)
    /\ locals.charge_score = R(100)
    /\ locals.encap_score = R(85)
    /\ locals.pdi_score = R(70)
    /\ locals.hydrodynamic_score = R(100)
    /\ locals.stability = R(85)

\* C2 as stated: for {Size: 100, Charge: 5, Encapsulation: 85}, every optional
\* field absent, compute_impact returns Delivery 92.0, Toxicity 0.8, Cost 54.5.
C2_ExampleDeliveryIs92 ==
    (ImpactComputed /\ design = C2Design) =>
        /\ C2SubScores
        /\ impact.value.Delivery = R(92)
        /\ impact.value.Toxicity = Frac(8, 10)
        /\ impact.value.Cost = Frac(545, 10)

\* C2 amended: for that design the sub-scores are 100, 100, 85, 70, 100 and 85
\* and compute_impact returns Delivery 91.0, Toxicity 0.8, Cost 54.5.
C2_ExampleDeliveryIs91 ==
    (ImpactComputed /\ design = C2Design) =>
        /\ C2SubScores
        /\ impact.value.Delivery = R(91)
        /\ impact.value.Toxicity = Frac(8, 10)
        /\ impact.value.Cost = Frac(545, 10)

C2_Witness == ImpactComputed /\ design = C2Design

SizeMessages == {MSG_INCREASE_SIZE, MSG_REDUCE_SIZE}
ChargeMessages == {MSG_LOWER_CHARGE, MSG_REDUCE_CHARGE}
EncapsulationMessages == {MSG_IMPROVE_ENCAP, MSG_AIM_ENCAP}

Count(r, S) == Cardinality({i \in DOMAIN r : r[i] \in S})

Category(m) ==
    CASE m \in SizeMessages -> 1
      [] m \in ChargeMessages -> 2
      [] m \in EncapsulationMessages -> 3
      [] OTHER -> 4

\* C3: get_recommendations returns at most one size message (Size < 80 or
\* Size > 150), at most one charge message (|Charge| > 10) and at most one
\* encapsulation message (Encapsulation < 85), in that order, and the fallback
\* message if and only if none of the three is present; it returns between
\* one and three messages.
C3_OneMessagePerCategory ==
    Returned(recommendations) =>
        LET r == recommendations.value
            sizeOff == Lt(design["Size"], R(80)) \/ Lt(R(150), design["Size"])
            chargeOff == Lt(R(10), Abs(design["Charge"]))
            encapOff == Lt(design["Encapsulation"], R(85))
        IN  /\ Len(r) \in 1..3
            /\ Count(r, SizeMessages) = IF sizeOff THEN 1 ELSE 0
            /\ Count(r, ChargeMessages) = IF chargeOff THEN 1 ELSE 0
            /\ Count(r, EncapsulationMessages) = IF encapOff THEN 1 ELSE 0
            /\ \A i, j \in DOMAIN r : i < j => Category(r[i]) < Category(r[j])
            /\ Count(r, {MSG_EXCELLENT}) =
                   IF sizeOff \/ chargeOff \/ encapOff THEN 0 ELSE 1

C3_Witness == Returned(recommendations) /\ Len(recommendations.value) = 3

Deltas == {Frac(1, 10), R(1), R(7), R(40), R(300)}

Bump(i, f, x) == [i EXCEPT ![f] = Add(@, x)]

\* C4: the overall score lies in [0,100], does not fall when Delivery alone
\* rises, and does not rise when Toxicity alone or Cost alone rises.
C4_OverallScoreMonotone ==
    Returned(overall) =>
        LET i == impact.value
            o == overall.value
        IN  /\ Between(R(0), o, R(100))
            /\ \A x \in Deltas :
                /\ Leq(o, overall_score_from_impact(Bump(i, "Delivery", x)))
                /\ Leq(overall_score_from_impact(Bump(i, "Delivery", Neg(x))), o)
                /\ Leq(overall_score_from_impact(Bump(i, "Toxicity", x)), o)
                /\ Leq(o, overall_score_from_impact(Bump(i, "Toxicity", Neg(x))))
                /\ Leq(overall_score_from_impact(Bump(i, "Cost", x)), o)
                /\ Leq(o, overall_score_from_impact(Bump(i, "Cost", Neg(x))))

C4_Witness ==
    /\ Returned(overall)
    /\ Lt(R(0), overall.value) /\ Lt(overall.value, R(100))
    /\ Lt(overall_score_from_impact(Bump(impact.value, "Cost", R(1))),
          overall.value)

Validated == called = "validate_parameter"

InRange == Between(vargs.optimal_range[1], vargs.value, vargs.optimal_range[2])

\* the distance of the value to the nearer bound of the range
DistanceToBound ==
    Min(Abs(Sub(vargs.value, vargs.optimal_range[1])),
        Abs(Sub(vargs.value, vargs.optimal_range[2])))

\* C5 as stated: validate_parameter returns ok inside [lo, hi], otherwise
\* warning when the value is within 20 of a bound, 20 included, and bad in
\* every other case.
C5_WarningUpToDistance20 ==
    Validated =>
        status = IF InRange THEN "ok"
                 ELSE IF Leq(DistanceToBound, R(20)) THEN "warning"
                 ELSE "bad"

\* C5 amended: validate_parameter returns ok inside [lo, hi], otherwise
\* warning when the value is less than 20 from a bound, and bad in every
\* other case, so a value exactly 20 outside a bound is bad; 130 against
\* [80,120] is warning and 200 is bad.
C5_WarningBelowDistance20 ==
    Validated =>
        /\ status = IF InRange THEN "ok"
                    ELSE IF Lt(DistanceToBound, R(20)) THEN "warning"
                    ELSE "bad"
        /\ (vargs.optimal_range = <<R(80), R(120)>> /\ vargs.value = R(130))
               => status = "warning"
        /\ (vargs.optimal_range = <<R(80), R(120)>> /\ vargs.value = R(200))
               => status = "bad"

C5_Witness ==
    /\ Validated
    /\ vargs.optimal_range = <<R(80), R(120)>> /\ vargs.value = R(140)
    /\ status = "bad"

OptimalDesign ==
    [Size |-> R(100), PDI |-> Frac(1, 10), Charge |-> R(0),
     Encapsulation |-> R(90), Stability |-> R(90), Material |-> "Lipid NP",
     DegradationTime |-> R(20)]

\* the seven predicates of the checklist that depend on the design
VariablePredicates(d) ==
    << Leq(d["Size"], R(200)),
       Lt(Get(d, "PDI", Frac(15, 100)), Frac(3, 10)),
       Leq(Abs(d["Charge"]), R(30)),
       Leq(R(70), d["Encapsulation"]),
       Leq(R(80), Get(d, "Stability", R(85))),
       IF Has(d, "Material") THEN d["Material"] \in {"Lipid NP", "PLGA"}
       ELSE FALSE,
       Lt(Get(d, "DegradationTime", R(30)), R(90)) >>

\* C6: regulatory_checklist returns 100 * k / 8, k counting the true
\* predicates among the seven variable ones and the constant-true one; the
\* result is 100 exactly when the seven hold, as for the fully-optimal
\* design, and is never below 12.5.
C6_ChecklistPercentage ==
    Returned(checklist) =>
        LET p == VariablePredicates(design)
            k == Cardinality({n \in DOMAIN p : p[n]}) + 1
        IN  /\ checklist.value = Frac(100 * k, 8)
            /\ (checklist.value = R(100)) <=> (\A n \in DOMAIN p : p[n])
            /\ Leq(Frac(125, 10), checklist.value)
            /\ design = OptimalDesign => checklist.value = R(100)

C6_Witness ==
    Returned(checklist) /\ design = OptimalDesign /\ checklist.value = R(100)

\* C7: compute_impact fails if and only if a required field is absent; with
\* the three present it returns for every subset of the optional fields
\* absent, also when Size = 0, where the hydrodynamic ratio is taken as 1.0.
C7_FailsIffRequiredFieldAbsent ==
    (mode = "design" /\ called = "compute_impact") =>
        /\ IsError(impact) <=> (\E k \in Required : ~Has(design, k))
        /\ Returned(impact) <=> Required \subseteq DOMAIN design
        /\ IsError(impact) =>
               impact = KeyError(FirstMissing(design,
                            <<"Size", "Charge", "Encapsulation">>))
        /\ (Returned(impact) /\ design["Size"] = R(0))
               => locals.size_ratio = R(1)

C7_Witness ==
    /\ mode = "design" /\ called = "compute_impact"
    /\ Returned(impact)
    /\ design["Size"] = R(0)
    /\ Has(design, "HydrodynamicSize")

SizeGridStep == 10
MaxSizeGridIndex == 40
SizeGrid == {R(SizeGridStep * k) : k \in 0..MaxSizeGridIndex}

\* C8: the size sub-score is 100 on [80,120], does not fall as Size rises
\* over [0,80] (0 at 0, 100 at 80), does not rise as Size rises above 120,
\* is 0 from 320 on, and stays in [0,100] for Size >= 0.
C8_SizeScoreShape ==
    (ImpactComputed /\ Leq(R(0), design["Size"])) =>
        LET s == design["Size"]
            sc == locals.size_score
        IN  /\ Between(R(0), sc, R(100))
            /\ Between(R(80), s, R(120)) => sc = R(100)
            /\ s = R(0) => sc = R(0)
            /\ Leq(R(320), s) => sc = R(0)
            /\ \A g \in SizeGrid :
                /\ (Leq(g, s) /\ Leq(s, R(80))) => Leq(size_score(g), sc)
                /\ (Leq(s, g) /\ Leq(g, R(80))) => Leq(sc, size_score(g))
                /\ (Lt(R(120), s) /\ Leq(s, g)) => Leq(size_score(g), sc)
                /\ (Lt(R(120), g) /\ Leq(g, s)) => Leq(sc, size_score(g))

C8_Witness ==
    ImpactComputed /\ design["Size"] = R(320) /\ locals.size_score = R(0)

\* the documented ranges of the fields Delivery depends on
InDocumentedRanges(d) ==
    /\ Leq(R(0), d["Size"])
    /\ Between(R(0), d["Encapsulation"], R(100))
    /\ Between(R(0), Get(d, "Stability", R(85)), R(100))
    /\ Between(R(0), Get(d, "PDI", Frac(15, 100)), R(1))

\* C9: for every design within the documented field ranges the Delivery
\* returned by compute_impact lies in [0,100].
C9_DeliveryWithinBounds ==
    (ImpactComputed /\ InDocumentedRanges(design)) =>
        Between(R(0), impact.value.Delivery, R(100))

C9_Witness ==
    /\ ImpactComputed /\ InDocumentedRanges(design)
    /\ impact.value.Delivery = R(100)

-----------------------------------------------------------------------------
(* Properties of the session state, checked under StateSpec *)

\* C10: a call of init_state (or ensure_state) keeps the value of every key
\* already present, an active tab set by set_active_tab included, adds only
\* the missing keys, from DEFAULTS first and from the overrides after, and a
\* second call with the same overrides changes nothing.
C10_InitStateKeepsPresentKeys ==
    [][ last'.op \in {"init_state", "ensure_state"} =>
          LET o == IF last'.overrides = <<>> THEN EmptyDict
                   ELSE last'.overrides[1]
          IN  /\ \A k \in DOMAIN session :
                    k \in DOMAIN session' /\ session'[k] = session[k]
              /\ DOMAIN session' =
                    DOMAIN session \cup DOMAIN DEFAULTS \cup DOMAIN o
              /\ \A k \in DOMAIN session' \ DOMAIN session :
                    session'[k] = IF k \in DOMAIN DEFAULTS THEN DEFAULTS[k]
                                  ELSE o[k]
              /\ init_state(session', last'.overrides) = session'
      ]_vars

C10_Witness ==
    /\ last.op = "init_state"
    /\ last.overrides # <<>>
    /\ "active_tab" \in DOMAIN last.overrides[1]
    /\ "user_role" \in DOMAIN session
    /\ session["active_tab"] = "Quiz"

=============================================================================
